---- MODULE Spec2Model ----
(***************************************************************************)
(* State-machine model of src/src/value_param.rs: the ValueParam trait     *)
(* with its two implementations (&T, the copy-source, and UniquePtr<T>,    *)
(* the move-source) and ValueParamHandler (the Manager) with new, get_ptr  *)
(* and Drop.                                                               *)
(*                                                                         *)
(* Memory is a set of cells 1..MaxAddr.  The handler occupies one cell and *)
(* its field `space` is embedded in it, so the cell of the handler is the  *)
(* cell of the slot.  NULL is the null pointer.                            *)
(***************************************************************************)
EXTENDS Integers, Sequences, FiniteSets, TLC

\* ---------------------------------------------------------------- bounds
MaxAddr == 3    \* memory cells 1..MaxAddr
MaxGets == 2    \* get_ptr calls per handler
MaxVal  == 1    \* values of T are 0..MaxVal

\* ------------------------------------------------------------- constants
NULL  == 0      \* std::ptr::null_mut()
PANIC == -1     \* outcome of a failed .expect(..): no pointer is returned

Addr == 1..MaxAddr

\* Option<MaybeUninit<StackStorage>>.  `init` is the (unobservable) fact that
\* the MaybeUninit holds a constructed value; `val` is that value.
None == [some |-> FALSE, init |-> FALSE, val |-> 0]
SomeUninit == [some |-> TRUE, init |-> FALSE, val |-> 0]

NoParam == [kind |-> "none", ptr |-> NULL]

VARIABLES
    arg,        \* the value source passed to new: [kind, ptr]
    objVal,     \* the value of the object arg.ptr refers to (if any)
    pc,         \* position in the handler's life
    param,      \* field ValueParamHandler::param
    space,      \* field ValueParamHandler::space
    thisAddr,   \* the cell the handler (and its slot) occupies, NULL before new
    ctorAddr,   \* the cell in which populate_stack_space constructed the copy
    dtorAddr,   \* the cell in which the copy's destructor ran
    rets,       \* results of the get_ptr calls so far, in order
    dtor,       \* destructor runs per object
    consults,   \* times Drop::drop has inspected self.space
    srcGets,    \* calls of the value source's own get_ptr
    failed      \* populate_stack_space unwound inside new

vars == <<arg, objVal, pc, param, space, thisAddr, ctorAddr, dtorAddr,
          rets, dtor, consults, srcGets, failed>>

\* ------------------------------------------------ impl ValueParam<T> for &T
\* variant: the copy-source asks for no stack space
ref_needs_stack_space_false(p) == FALSE

ref_needs_stack_space(p) == TRUE

\* variant: the copy constructor is never invoked on the slot
ref_populate_stack_space_noop(p, sp, m) == sp

\* copy-constructs *self (value m) into the slot
ref_populate_stack_space(p, sp, m) == [sp EXCEPT !.init = TRUE, !.val = m]

ref_get_ptr(p) == [ret |-> NULL, param |-> p]

\* ---------------------------------------- impl ValueParam<T> for UniquePtr<T>
\* variant: the move-source asks for stack space
uniq_needs_stack_space_true(p) == TRUE

uniq_needs_stack_space(p) == FALSE

uniq_populate_stack_space(p, sp, m) == sp

\* variant: no .expect(..): the null owning pointer is handed out as it is
uniq_get_ptr_unchecked(p) == [ret |-> p.ptr, param |-> p]

\* variant: the pointee is released from the owning pointer (into_raw), which
\* is left null
uniq_get_ptr_release(p) ==
    IF p.ptr = NULL
    THEN [ret |-> PANIC, param |-> p]
    ELSE [ret |-> p.ptr, param |-> [p EXCEPT !.ptr = NULL]]

\* self.as_mut().expect(..): panics on a null owning pointer, else the address
\* of the pointee; the owning pointer keeps its pointee
uniq_get_ptr(p) ==
    IF p.ptr = NULL
    THEN [ret |-> PANIC, param |-> p]
    ELSE [ret |-> p.ptr, param |-> p]

\* ------------------------------------------------- trait dispatch on VP
needs_stack_space(p) ==
    IF p.kind = "ref" THEN ref_needs_stack_space(p) ELSE uniq_needs_stack_space(p)

populate_stack_space(p, sp, m) ==
    IF p.kind = "ref"
    THEN ref_populate_stack_space(p, sp, m)
    ELSE uniq_populate_stack_space(p, sp, m)

vp_get_ptr(p) ==
    IF p.kind = "ref" THEN ref_get_ptr(p) ELSE uniq_get_ptr(p)

\* variant: the handler always asks the value source, never the slot
get_ptr_delegate(sp, p, a) ==
    LET r == vp_get_ptr(p)
    IN  [ret |-> r.ret, space |-> sp, param |-> r.param, asked |-> TRUE]

\* variant: the handler takes the slot out of self.space (if let Some(..) =
\* self.space.take()) while computing the pointer
get_ptr_take(sp, p, a) ==
    IF sp.some
    THEN [ret |-> a, space |-> None, param |-> p, asked |-> FALSE]
    ELSE LET r == vp_get_ptr(p)
         IN  [ret |-> r.ret, space |-> sp, param |-> r.param, asked |-> TRUE]

\* variant: the handler asks the value source first and falls back to the
\* slot when the source answers null
get_ptr_source_first(sp, p, a) ==
    LET r == vp_get_ptr(p)
    IN  IF r.ret = NULL /\ sp.some
        THEN [ret |-> a, space |-> sp, param |-> r.param, asked |-> TRUE]
        ELSE [ret |-> r.ret, space |-> sp, param |-> r.param, asked |-> TRUE]

\* variant: an absent slot is reserved before the value source is asked
get_ptr_reserve(sp, p, a) ==
    IF sp.some
    THEN [ret |-> a, space |-> sp, param |-> p, asked |-> FALSE]
    ELSE LET r == vp_get_ptr(p)
         IN  [ret |-> r.ret, space |-> SomeUninit, param |-> r.param, asked |-> TRUE]

\* ------------------------------------------------- ValueParamHandler::get_ptr
\* a is the cell the handler occupies when the call is made
get_ptr(sp, p, a) ==
    IF sp.some
    THEN [ret |-> a, space |-> sp, param |-> p, asked |-> FALSE]
    ELSE LET r == vp_get_ptr(p)
         IN  [ret |-> r.ret, space |-> sp, param |-> r.param, asked |-> TRUE]

\* variant: the MaybeUninit itself is dropped (no assume_init), which runs
\* no destructor
drop_forget(sp) == [space |-> None, destructs |-> "none"]

\* variant: the slot is matched without take(), so it stays occupied
drop_no_take(sp) ==
    [space     |-> sp,
     destructs |-> IF sp.some
                   THEN (IF sp.init THEN "copy" ELSE "uninit")
                   ELSE "none"]

\* ------------------------------------------- Drop for ValueParamHandler::drop
\* self.space.take() leaves None; assume_init + mem::drop destructs what the
\* slot holds: a constructed copy, or an unpopulated slot.
drop(sp) ==
    [space     |-> None,
     destructs |-> IF sp.some
                   THEN (IF sp.init THEN "copy" ELSE "uninit")
                   ELSE "none"]

\* variant: the handler treats the referenced value as its own and destroys
\* it with the value source
drop_param_owned(p) ==
    IF p.ptr = NULL THEN "none"
    ELSE IF p.kind = "uniq" THEN "pointee" ELSE "orig"

\* Drop glue for the field `param: VP` that the handler owns: a &T has no
\* destructor, a UniquePtr<T> destroys its pointee unless it is null.
drop_param(p) ==
    IF p.kind = "uniq" /\ p.ptr # NULL THEN "pointee" ELSE "none"

\* Cells in which the handler, or a temporary, can be placed: any cell not
\* occupied by the live object the value source refers to.
FreeCells == Addr \ {arg.ptr}

Bump(d, what) == IF what = "none" THEN d ELSE [d EXCEPT ![what] = @ + 1]

\* ------------------------------------------------------------------- Init
Init ==
    /\ arg \in ([kind : {"ref"}, ptr : Addr] \cup [kind : {"uniq"}, ptr : Addr \cup {NULL}])
    /\ objVal \in 0..MaxVal
    /\ pc = "start"
    /\ param = NoParam
    /\ space = None
    /\ thisAddr = NULL
    /\ ctorAddr = NULL
    /\ dtorAddr = NULL
    /\ rets = <<>>
    /\ dtor = [orig |-> 0, copy |-> 0, pointee |-> 0, uninit |-> 0]
    /\ consults = 0
    /\ srcGets = 0
    /\ failed = FALSE

\* ------------------------------------------------------ ValueParamHandler::new
\* let mut this = Self { param, space: None, .. }: `this` is a local of new
NewBuild ==
    /\ pc = "start"
    /\ \E a \in FreeCells : thisAddr' = a
    /\ param' = arg
    /\ space' = None
    /\ pc' = "new_built"
    /\ UNCHANGED <<arg, objVal, ctorAddr, dtorAddr, rets, dtor, consults, failed,
                   srcGets>>

\* variant: the slot is reserved without asking needs_stack_space
NewReserve_unconditional ==
    /\ pc = "new_built"
    /\ space' = SomeUninit
    /\ pc' = "new_reserved"
    /\ UNCHANGED <<arg, objVal, param, thisAddr, ctorAddr, dtorAddr, rets, dtor,
                   consults, failed,
                   srcGets>>

\* if this.param.needs_stack_space() { this.space = Some(MaybeUninit::uninit());
NewReserve ==
    /\ pc = "new_built"
    /\ IF needs_stack_space(param)
       THEN space' = SomeUninit /\ pc' = "new_reserved"
       ELSE space' = space /\ pc' = "new_done"
    /\ UNCHANGED <<arg, objVal, param, thisAddr, ctorAddr, dtorAddr, rets, dtor,
                   consults, failed,
                   srcGets>>

\* this.param.populate_stack_space(Pin::new_unchecked(this.space.as_mut().unwrap()))
NewPopulate ==
    /\ pc = "new_reserved"
    /\ space' = populate_stack_space(param, space, objVal)
    /\ ctorAddr' = thisAddr
    /\ pc' = "new_done"
    /\ UNCHANGED <<arg, objVal, param, thisAddr, dtorAddr, rets, dtor, consults, failed,
                   srcGets>>

\* the copy construction unwinds: `this` is dropped while new is left
NewPopulateUnwinds ==
    /\ pc = "new_reserved"
    /\ failed' = TRUE
    /\ pc' = "unwind"
    /\ UNCHANGED <<arg, objVal, param, space, thisAddr, ctorAddr, dtorAddr, rets,
                   dtor, consults,
                   srcGets>>

\* `this` is returned by value: the handler is moved into the caller's place,
\* which is the cell of the local `this` only when the build elides the move.
NewReturn ==
    /\ pc = "new_done"
    /\ \E a \in FreeCells : thisAddr' = a
    /\ pc' = "ready"
    /\ UNCHANGED <<arg, objVal, param, space, ctorAddr, dtorAddr, rets, dtor,
                   consults, failed,
                   srcGets>>

\* -------------------------------------------------------------------- get_ptr
GetPtr ==
    /\ pc = "ready"
    /\ Len(rets) < MaxGets
    /\ LET r == get_ptr(space, param, thisAddr)
       IN  /\ rets' = Append(rets, r.ret)
           /\ space' = r.space
           /\ param' = r.param
           /\ srcGets' = (IF r.asked THEN srcGets + 1 ELSE srcGets)
    /\ UNCHANGED <<arg, objVal, pc, thisAddr, ctorAddr, dtorAddr, dtor, consults, failed>>

\* ----------------------------------------------------------------------- drop
\* Drop::drop; the value leaves the slot by value (assume_init, mem::drop), so
\* the destructor runs in the slot's cell only when the build elides the moves.
Drop ==
    /\ pc \in {"ready", "unwind"}
    /\ LET r == drop(space)
       IN  /\ space' = r.space
           /\ dtor' = Bump(dtor, r.destructs)
           /\ IF r.destructs = "none"
              THEN dtorAddr' = dtorAddr
              ELSE \E a \in FreeCells : dtorAddr' = a
    /\ consults' = consults + 1
    /\ pc' = "dropping"
    /\ UNCHANGED <<arg, objVal, param, thisAddr, ctorAddr, rets, failed,
                   srcGets>>

\* after Drop::drop the fields are dropped: param, then space (now None; a
\* MaybeUninit never runs a destructor)
DropFields ==
    /\ pc = "dropping"
    /\ dtor' = Bump(dtor, drop_param(param))
    /\ pc' = "dropped"
    /\ UNCHANGED <<arg, objVal, param, space, thisAddr, ctorAddr, dtorAddr, rets,
                   consults, failed,
                   srcGets>>

Next ==
    \/ NewBuild
    \/ NewReserve
    \/ NewPopulate
    \/ NewPopulateUnwinds
    \/ NewReturn
    \/ GetPtr
    \/ Drop
    \/ DropFields

Spec == Init /\ [][Next]_vars

\* ------------------------------------------------------------------ typing
TypeOK ==
    /\ arg.kind \in {"ref", "uniq"}
    /\ pc \in {"start", "new_built", "new_reserved", "new_done", "unwind",
               "ready", "dropping", "dropped"}
    /\ thisAddr \in Addr \cup {NULL}
    /\ Len(rets) <= MaxGets
    /\ consults \in 0..1
    /\ srcGets \in 0..MaxGets

\* ------------------------------------------------------------ vocabulary
IsCopy == arg.kind = "ref"
IsMove == arg.kind = "uniq"
IsNullMove == IsMove /\ arg.ptr = NULL
Destroying == pc \in {"dropping", "dropped"}
Returned == {i \in 1..Len(rets) : rets[i] # PANIC}

\* the cell a holds an object that was constructed and not yet destructed
LiveAt(a) ==
    \/ IsCopy /\ a = thisAddr /\ space.some /\ space.init /\ dtor.copy = 0
    \/ IsMove /\ a # NULL /\ a = arg.ptr /\ dtor.pointee = 0

\* ------------------------------------------------------------------ claims

\* C1: a handler that new built from a copy-source has run the destructor of
\* the copy in its slot zero times until it is dropped, and exactly once from
\* the moment Drop::drop has run, whatever the number of get_ptr calls.
C1_CopyDestructedExactlyOnce ==
    (IsCopy /\ ~failed) =>
        /\ dtor.copy = (IF Destroying THEN 1 ELSE 0)
        /\ dtor.uninit = 0

C1_Witness ==
    IsCopy /\ ~failed /\ pc = "dropped" /\ Len(rets) >= 1 /\ dtor.copy = 1

\* C2 (as stated): for a move-source, destroying the handler, the destruction
\* of the value source it owns included, runs no destructor on the pointee.
C2_PointeeNeverDestructed ==
    IsMove => dtor.pointee = 0

\* C2 (amended): for a move-source, Drop::drop itself runs no destructor at
\* all (there is no slot); the destruction of the owning pointer the handler
\* holds then destructs the pointee exactly once when the pointer is not null
\* and never when it is null.
C2_PointeeDestructedWithSource ==
    IsMove =>
        /\ dtor.copy = 0 /\ dtor.uninit = 0 /\ dtor.orig = 0
        /\ dtor.pointee = (IF pc = "dropped" /\ arg.ptr # NULL THEN 1 ELSE 0)

C2_Witness ==
    IsMove /\ arg.ptr # NULL /\ pc = "dropped" /\ Len(rets) >= 1 /\ dtor.pointee = 1

\* C3: for a copy-source the slot stays in the cell in which
\* populate_stack_space constructed the copy, the return of new included, so
\* every get_ptr hands out that cell.
C3_SlotAddressFixed ==
    (IsCopy /\ space.some /\ space.init) =>
        /\ thisAddr = ctorAddr
        /\ \A i \in Returned : rets[i] = ctorAddr

\* C4: get_ptr never returns a null pointer; for a move-source whose owning
\* pointer is null, new does not fail and every get_ptr call panics.
C4_NullMoveFailsAtUse ==
    /\ \A i \in 1..Len(rets) : rets[i] # NULL
    /\ IsNullMove =>
        /\ ~failed /\ pc # "unwind"
        /\ \A i \in 1..Len(rets) : rets[i] = PANIC

C4_Witness ==
    IsNullMove /\ pc = "ready" /\ Len(rets) >= 2 /\ rets[1] = PANIC /\ rets[2] = PANIC

\* C5: a copy-source needs stack space, and every get_ptr of its handler
\* returns the slot's cell, which is neither null nor the cell of the original.
C5_CopyPointerIsSlot ==
    IsCopy =>
        /\ needs_stack_space(arg)
        /\ \A i \in 1..Len(rets) :
              /\ rets[i] \notin {NULL, PANIC}
              /\ rets[i] # arg.ptr
              /\ rets[i] = thisAddr

C5_Witness ==
    IsCopy /\ pc = "ready" /\ Len(rets) >= 1 /\ rets[1] = thisAddr /\ rets[1] # arg.ptr

\* C6: a move-source with a non-null owning pointer needs no stack space, no
\* slot is reserved and no copy constructed, and every get_ptr returns the
\* address the owning pointer held at construction.
C6_MovePointerIsPointee ==
    (IsMove /\ arg.ptr # NULL) =>
        /\ ~needs_stack_space(arg)
        /\ ~space.some /\ ctorAddr = NULL
        /\ \A i \in 1..Len(rets) : rets[i] = arg.ptr

C6_Witness ==
    IsMove /\ arg.ptr # NULL /\ pc = "ready" /\ Len(rets) >= 1 /\ rets[1] = arg.ptr

\* C7: for a copy-source or a non-null move-source, a get_ptr call returns
\* what every earlier get_ptr call returned, and leaves the slot, the value
\* source, the referenced value and the destructor counts unchanged.
C7_GetPtrIdempotent ==
    [][(Len(rets') > Len(rets) /\ ~IsNullMove) =>
          /\ space' = space /\ param' = param
          /\ objVal' = objVal /\ dtor' = dtor /\ thisAddr' = thisAddr
          /\ rets'[Len(rets')] # PANIC
          /\ \A i \in 1..Len(rets) : rets[i] = rets'[Len(rets')]]_vars

C7_Witness ==
    IsCopy /\ pc = "ready" /\ Len(rets) >= 2 /\ rets[1] = rets[2] /\ space.some

\* C8: while the handler is not being destroyed, every pointer get_ptr has
\* returned refers to a live object; the copy of a copy-source is destructed
\* only by the handler's destruction.
C8_ReturnedPointersLive ==
    /\ pc = "ready" => \A i \in Returned : LiveAt(rets[i])
    /\ (IsCopy /\ dtor.copy > 0) => Destroying

C8_Witness ==
    IsCopy /\ pc = "ready" /\ Len(rets) >= 1 /\ LiveAt(rets[1]) /\ space.val = objVal

\* C9: in every state, the states inside new and the unwinding of a failed
\* populate_stack_space included, an occupied slot holds a constructed value,
\* and no destructor ever runs on an unpopulated slot.
C9_OccupiedImpliesConstructed ==
    /\ space.some => space.init
    /\ dtor.uninit = 0

\* C10: Drop::drop inspects the slot exactly once and leaves it unoccupied;
\* once destruction has begun the slot is never occupied again, no further
\* destructor runs on it, and running the body of drop again would destruct
\* nothing.
C10_NoDoubleDestruction ==
    [][/\ consults' = (IF pc' \in {"dropping", "dropped"} THEN 1 ELSE 0)
       /\ pc' \in {"dropping", "dropped"} =>
             /\ ~space'.some
             /\ drop(space').destructs = "none"
             /\ dtor'.copy + dtor'.uninit <= 1
       /\ Destroying =>
             /\ pc' \in {"dropping", "dropped"}
             /\ dtor'.copy = dtor.copy /\ dtor'.uninit = dtor.uninit]_vars

C10_Witness ==
    IsCopy /\ ~failed /\ pc = "dropped" /\ consults = 1 /\ ~space.some /\ dtor.copy = 1
        /\ dtor.uninit = 0

\* C11: for a copy-source the events are ordered populate, get_ptr returns,
\* destructor of the copy: a get_ptr call returns the slot's cell only when
\* populate_stack_space has completed on the slot and the copy has not been
\* destructed, and no get_ptr returns once destruction has begun.
C11_PopulateGetDestructOrder ==
    [][IsCopy =>
          /\ Len(rets') > Len(rets) =>
                /\ space.some /\ space.init /\ ctorAddr # NULL
                /\ dtor.copy = 0 /\ dtor.uninit = 0
                /\ rets'[Len(rets')] = thisAddr
          /\ (Destroying \/ dtor.copy > 0) => rets' = rets
          /\ dtor'.copy > dtor.copy => (space.init /\ ctorAddr # NULL)]_vars

C11_Witness ==
    IsCopy /\ pc = "dropping" /\ Len(rets) >= 2 /\ ctorAddr # NULL /\ dtor.copy = 1

\* C12: from the end of new until destruction begins the slot is present and
\* populated exactly when the held value source needs stack space; for a
\* move-source no slot is ever reserved and populate_stack_space never runs.
C12_SlotIffNeedsStackSpace ==
    /\ pc \in {"new_done", "ready"} =>
          /\ space.some <=> needs_stack_space(param)
          /\ space.init <=> needs_stack_space(param)
          /\ (ctorAddr # NULL) <=> needs_stack_space(param)
    /\ IsMove => (~space.some /\ ~space.init /\ ctorAddr = NULL)

C12_Witness ==
    IsMove /\ arg.ptr # NULL /\ pc = "ready" /\ Len(rets) >= 1 /\ ~space.some
        /\ ~needs_stack_space(param)

\* C13: a get_ptr call of the handler returns the slot's cell without calling
\* the value source's get_ptr when the slot is occupied, and otherwise calls
\* the value source's get_ptr once and returns its result, failing when it
\* fails; no other step calls the value source's get_ptr.
C13_GetPtrChoosesBySlot ==
    [][IF Len(rets') > Len(rets)
       THEN IF space.some
            THEN rets'[Len(rets')] = thisAddr /\ srcGets' = srcGets
            ELSE /\ rets'[Len(rets')] = vp_get_ptr(param).ret
                 /\ srcGets' = srcGets + 1
       ELSE srcGets' = srcGets]_vars

C13_Witness ==
    IsCopy /\ pc = "ready" /\ space.some /\ Len(rets) >= 1 /\ srcGets = 0
        /\ rets[1] = thisAddr /\ rets[1] # vp_get_ptr(param).ret

\* C14: for a move-source whose owning pointer is null, every get_ptr call
\* fails and leaves the slot absent and the owning pointer null, so a later
\* call fails in the same way, and no step, the destruction after a failure
\* included, runs a destructor.
C14_FailedGetPtrChangesNothing ==
    [][IsNullMove =>
          /\ Len(rets') > Len(rets) =>
                /\ rets'[Len(rets')] = PANIC
                /\ space' = space /\ ~space'.some
                /\ param' = param /\ param'.ptr = NULL
                /\ pc' = pc /\ thisAddr' = thisAddr
          /\ dtor' = dtor
          /\ dtor'.copy = 0 /\ dtor'.uninit = 0 /\ dtor'.pointee = 0]_vars

C14_Witness ==
    IsNullMove /\ pc = "dropped" /\ Len(rets) >= 2 /\ rets[1] = PANIC /\ rets[2] = PANIC
        /\ ~space.some /\ param.ptr = NULL /\ dtor.uninit = 0 /\ dtor.copy = 0

\* C15: for a copy-source no step of new, get_ptr or drop changes the value
\* source or the value of the original, or runs a destructor on the original;
\* the copy in the slot carries the original's value, and once the handler is
\* destroyed the copy is the one object that has been destructed.
C15_OriginalUntouched ==
    [][IsCopy =>
          /\ arg' = arg /\ objVal' = objVal
          /\ param' \in {NoParam, arg}
          /\ dtor'.orig = 0 /\ dtor'.pointee = 0
          /\ space'.init => space'.val = objVal
          /\ (pc' = "dropped" /\ ~failed') =>
                dtor' = [orig |-> 0, copy |-> 1, pointee |-> 0, uninit |-> 0]]_vars

C15_Witness ==
    IsCopy /\ ~failed /\ pc = "dropped" /\ objVal = MaxVal /\ param = arg
        /\ dtor = [orig |-> 0, copy |-> 1, pointee |-> 0, uninit |-> 0]

====
